---- MODULE Spec2Model ----
(***************************************************************************)
(* Model of core_simd's mask family (crates/core_simd/src/masks/mod.rs),   *)
(* the mask and integer reductions (reduction.rs) and the alias catalog.   *)
(*                                                                         *)
(* The two mask backends (mask_impl = full_masks.rs or bitmask.rs, chosen  *)
(* by cfg at mod.rs:5-13) are run side by side: every state variable that  *)
(* holds a mask is a function from the backend to that backend's physical  *)
(* value, and every action applies the same operation with the same inputs *)
(* under both.  Lanes and array elements are indexed from 0 as in the      *)
(* source.                                                                 *)
(***************************************************************************)
EXTENDS Integers, Sequences, FiniteSets

\* ------------------------------------------------------------------ bounds
\* Spec explores every mask of every lane count up to MaxLanes.
MaxLanes == 4
\* SpecWide explores all lane counts, with at most MaxSets calls of set.
MaxSets == 2
\* Integer lanes offered to from_int are drawn from -MaxLaneAbs .. MaxLaneAbs.
MaxLaneAbs == 2
\* SpecReduce explores every vector of up to MaxReduceLanes lanes.
MaxReduceLanes == 4

\* ------------------------------------------------------ types and backends
Full == "full_masks"
Packed == "bitmask"
Backends == {Full, Packed}

MaskTypes == {"Mask8", "Mask16", "Mask32", "Mask64", "MaskSize"}

\* The lane counts for which `impl Mask for $name<N>` exists.
MaskLanes == {1, 2, 4, 8, 16, 32}

\* <Self as Mask>::BitMask = [u8; BitMaskLen(n)]
BitMaskLen(n) ==
    CASE n \in {1, 2, 4, 8} -> 1
      [] n = 16 -> 2
      [] n = 32 -> 4

Lanes(n) == 0 .. (n - 1)

Ok(v) == [panic |-> "", val |-> v]
Panic(msg) == [panic |-> msg, val |-> <<>>]

\* ------------------------------------------------- integer lane arithmetic
\* Two's-complement bitwise operations on signed lane values.
RECURSIVE IntAnd(_, _)
IntAnd(a, b) ==
    IF a = 0 \/ b = 0 THEN 0
    ELSE IF a = -1 THEN b
    ELSE IF b = -1 THEN a
    ELSE 2 * IntAnd(a \div 2, b \div 2) + ((a % 2) * (b % 2))

RECURSIVE IntOr(_, _)
IntOr(a, b) ==
    IF a = -1 \/ b = -1 THEN -1
    ELSE IF a = 0 THEN b
    ELSE IF b = 0 THEN a
    ELSE 2 * IntOr(a \div 2, b \div 2) + (IF (a % 2) + (b % 2) > 0 THEN 1 ELSE 0)

RECURSIVE IntXor(_, _)
IntXor(a, b) ==
    IF a = 0 THEN b
    ELSE IF b = 0 THEN a
    ELSE IF a = -1 /\ b = -1 THEN 0
    ELSE 2 * IntXor(a \div 2, b \div 2) + (((a % 2) + (b % 2)) % 2)

IntNot(a) == (-a) - 1

\* ------------------------------------------------ backend layer (mask_impl)
\* Dense backend: n lanes, each 0 or -1.  Packed backend: n bits, each 0 or 1.
Enc(be, value) == IF value THEN (IF be = Full THEN -1 ELSE 1) ELSE 0

mask_impl_splat(be, n, value) == [i \in Lanes(n) |-> Enc(be, value)]

mask_impl_test_unchecked(be, inner, lane) ==
    IF be = Full THEN inner[lane] = -1 ELSE inner[lane] = 1

mask_impl_set_unchecked(be, inner, lane, value) ==
    [inner EXCEPT ![lane] = Enc(be, value)]

mask_impl_from_int_unchecked(be, value) ==
    IF be = Full THEN value
    ELSE [i \in DOMAIN value |-> IF value[i] = -1 THEN 1 ELSE 0]

mask_impl_to_int(be, inner) ==
    IF be = Full THEN inner
    ELSE [i \in DOMAIN inner |-> IF inner[i] = 1 THEN -1 ELSE 0]

\* One bit per lane: lane i is bit (i % 8) of byte (i / 8).
RECURSIVE PackByte(_, _, _, _, _)
PackByte(be, inner, n, j, k) ==
    IF k = 8 \/ 8 * j + k >= n THEN 0
    ELSE (IF mask_impl_test_unchecked(be, inner, 8 * j + k) THEN 1 ELSE 0)
         + 2 * PackByte(be, inner, n, j, k + 1)

mask_impl_to_bitmask(be, inner, n) ==
    [j \in 0 .. (BitMaskLen(n) - 1) |-> PackByte(be, inner, n, j, 0)]

BitOf(bitmask, i) == (bitmask[i \div 8] \div (2 ^ (i % 8))) % 2

mask_impl_from_bitmask(be, bitmask, n) ==
    [i \in Lanes(n) |-> Enc(be, BitOf(bitmask, i) = 1)]

mask_impl_bitand(be, a, b) ==
    IF be = Full THEN [i \in DOMAIN a |-> IntAnd(a[i], b[i])]
    ELSE [i \in DOMAIN a |-> a[i] * b[i]]

mask_impl_bitor(be, a, b) ==
    IF be = Full THEN [i \in DOMAIN a |-> IntOr(a[i], b[i])]
    ELSE [i \in DOMAIN a |-> IF a[i] + b[i] > 0 THEN 1 ELSE 0]

mask_impl_bitxor(be, a, b) ==
    IF be = Full THEN [i \in DOMAIN a |-> IntXor(a[i], b[i])]
    ELSE [i \in DOMAIN a |-> (a[i] + b[i]) % 2]

mask_impl_not(be, a) ==
    IF be = Full THEN [i \in DOMAIN a |-> IntNot(a[i])]
    ELSE [i \in DOMAIN a |-> 1 - a[i]]

mask_impl_eq(be, a, b) == a = b

\* Width conversion of the backend value: every lane keeps its truth value.
mask_impl_into(be, inner) ==
    [i \in DOMAIN inner |-> Enc(be, mask_impl_test_unchecked(be, inner, i))]

\* intrinsics::simd_reduce_any / simd_reduce_all on an integer mask vector.
simd_reduce_any(v) == \E i \in DOMAIN v : v[i] # 0
simd_reduce_all(v) == \A i \in DOMAIN v : v[i] # 0

\* impl_full_mask_reductions: the dense backend's any / all.
full_any(inner) == simd_reduce_any(mask_impl_to_int(Full, inner))
full_all(inner) == simd_reduce_all(mask_impl_to_int(Full, inner))

\* The packed backend's any / all.
bitmask_any(inner) == \E i \in DOMAIN inner : inner[i] = 1
bitmask_all(inner) == \A i \in DOMAIN inner : inner[i] = 1

\* ---------------------------------------------- vector capability (external)
\* $bits_ty::splat(x)
int_splat(n, x) == [i \in Lanes(n) |-> x]

\* value.lanes_eq(other): the mask of the lanes in which the vectors agree.
lanes_eq(be, a, b) ==
    mask_impl_from_int_unchecked(be, [i \in DOMAIN a |-> IF a[i] = b[i] THEN -1 ELSE 0])

\* ------------------------------------------------ opaque masks (masks/mod.rs)
splat(be, n, value) == mask_impl_splat(be, n, value)

test_unchecked(be, self, lane) == mask_impl_test_unchecked(be, self, lane)

test(be, n, self, lane) ==
    IF ~(lane < n) THEN Panic("lane index out of range")
    ELSE Ok(test_unchecked(be, self, lane))

set_unchecked(be, self, lane, value) == mask_impl_set_unchecked(be, self, lane, value)

\* Mutant: the bound check admits lane = LANES.
set_off_by_one(be, n, self, lane, value) ==
    IF ~(lane <= n) THEN [panic |-> "lane index out of range", val |-> self]
    ELSE Ok(set_unchecked(be, self, lane, value))

\* &mut self: val is self after the call.
set(be, n, self, lane, value) ==
    IF ~(lane < n) THEN [panic |-> "lane index out of range", val |-> self]
    ELSE Ok(set_unchecked(be, self, lane, value))

RECURSIVE from_array_loop(_, _, _, _, _)
from_array_loop(be, n, vector, array, i) ==
    IF i < n
    THEN LET r == set(be, n, vector, i, array[i])
         IN  IF r.panic # "" THEN Panic(r.panic)
             ELSE from_array_loop(be, n, r.val, array, i + 1)
    ELSE Ok(vector)

\* Mutant: the loop starts at lane 1.
from_array_skip_first(be, n, array) ==
    from_array_loop(be, n, splat(be, n, FALSE), array, 1)

from_array(be, n, array) == from_array_loop(be, n, splat(be, n, FALSE), array, 0)

RECURSIVE to_array_loop(_, _, _, _, _)
to_array_loop(be, n, self, array, i) ==
    IF i < n
    THEN LET r == test(be, n, self, i)
         IN  IF r.panic # "" THEN Panic(r.panic)
             ELSE to_array_loop(be, n, self, [array EXCEPT ![i] = r.val], i + 1)
    ELSE Ok(array)

to_array(be, n, self) == to_array_loop(be, n, self, [i \in Lanes(n) |-> FALSE], 0)

\* Debug::fmt: the list of the lanes' values, each written as a bool is.
RECURSIVE fmt_entries(_, _, _, _, _)
fmt_entries(be, n, self, list, lane) ==
    IF lane < n
    THEN LET r == test(be, n, self, lane)
         IN  IF r.panic # "" THEN Panic(r.panic)
             ELSE fmt_entries(be, n, self,
                              Append(list, IF r.val THEN "true" ELSE "false"), lane + 1)
    ELSE Ok(list)

fmt(be, n, self) == fmt_entries(be, n, self, <<>>, 0)

from_int_unchecked(be, value) == mask_impl_from_int_unchecked(be, value)

\* Mutant: true lanes are 1, not -1.
to_int_one(be, self) ==
    [i \in DOMAIN self |-> IF mask_impl_test_unchecked(be, self, i) THEN 1 ELSE 0]

to_int(be, self) == mask_impl_to_int(be, self)

to_bitmask(be, n, self) == mask_impl_to_bitmask(be, self, n)

\* Mutant: the bytes are read in the opposite order.
from_bitmask_byte_swapped(be, n, bitmask) ==
    mask_impl_from_bitmask(
        be, [j \in DOMAIN bitmask |-> bitmask[(BitMaskLen(n) - 1) - j]], n)

from_bitmask(be, n, bitmask) == mask_impl_from_bitmask(be, bitmask, n)

default(be, n) == splat(be, n, FALSE)

\* Mutant: only lane 0 is compared.
eq_lane_zero(be, self, other) == self[0] = other[0]

eq(be, self, other) == mask_impl_eq(be, self, other)

\* impl_opaque_mask_reductions: self.0.any() / self.0.all()
any(be, self) == IF be = Full THEN full_any(self) ELSE bitmask_any(self)
\* Mutant: all() answers any().
all_as_any(be, self) == IF be = Full THEN full_any(self) ELSE bitmask_any(self)

all(be, self) == IF be = Full THEN full_all(self) ELSE bitmask_all(self)

bitand(be, self, rhs) == mask_impl_bitand(be, self, rhs)
bitand_bool(be, n, self, rhs) == bitand(be, self, splat(be, n, rhs))
bool_bitand(be, n, self, rhs) == bitand(be, splat(be, n, self), rhs)

bitor(be, self, rhs) == mask_impl_bitor(be, self, rhs)
bitor_bool(be, n, self, rhs) == bitor(be, self, splat(be, n, rhs))
bool_bitor(be, n, self, rhs) == bitor(be, splat(be, n, self), rhs)

bitxor(be, self, rhs) == mask_impl_bitxor(be, self, rhs)
bitxor_bool(be, n, self, rhs) == bitxor(be, self, splat(be, n, rhs))
bool_bitxor(be, n, self, rhs) == bitxor(be, splat(be, n, self), rhs)

not(be, self) == mask_impl_not(be, self)

\* The in-place operators: the value is self after the call.
bitand_assign(be, self, rhs) == mask_impl_bitand(be, self, rhs)
bitand_assign_bool(be, n, self, rhs) == bitand_assign(be, self, splat(be, n, rhs))
\* Mutant: |= computes &.
bitor_assign_as_and(be, self, rhs) == mask_impl_bitand(be, self, rhs)

bitor_assign(be, self, rhs) == mask_impl_bitor(be, self, rhs)
bitor_assign_bool(be, n, self, rhs) == bitor_assign(be, self, splat(be, n, rhs))
bitxor_assign(be, self, rhs) == mask_impl_bitxor(be, self, rhs)
bitxor_assign_bool(be, n, self, rhs) == bitxor_assign(be, self, splat(be, n, rhs))

\* Mutant: the check asks any() in place of all().
from_int_any(be, n, value) ==
    IF ~any(be, bitor(be, lanes_eq(be, value, int_splat(n, 0)),
                          lanes_eq(be, value, int_splat(n, -1))))
    THEN Panic("all values must be either 0 or -1")
    ELSE Ok(from_int_unchecked(be, value))

\* Mutant: the vector is taken without the check.
from_int_unvalidated(be, n, value) == Ok(from_int_unchecked(be, value))

from_int(be, n, value) ==
    IF ~all(be, bitor(be, lanes_eq(be, value, int_splat(n, 0)),
                          lanes_eq(be, value, int_splat(n, -1))))
    THEN Panic("all values must be either 0 or -1")
    ELSE Ok(from_int_unchecked(be, value))

\* impl_from: From<$from<LANES>> for $to<LANES>, for $from # $to.
\* Mutant: the last lane is lost in the conversion.
from_drop_last(be, value) ==
    [i \in DOMAIN value |->
        IF i + 1 = Cardinality(DOMAIN value) /\ i > 0 THEN 0 ELSE mask_impl_into(be, value)[i]]

from(be, value) == mask_impl_into(be, value)

\* ------------------------------------------- integer reductions (reduction.rs)
\* The range of a signed integer of the given width.
MaxOf(bits) == (2 ^ (bits - 2) - 1) * 2 + 1
MinOf(bits) == (-MaxOf(bits)) - 1

\* Two's-complement wrapping addition of two in-range values; no intermediate
\* value leaves the range.
wrapping_add(a, b, bits) ==
    IF a >= 0 /\ b >= 0 /\ a > MaxOf(bits) - b THEN (a + MinOf(bits)) + (b + MinOf(bits))
    ELSE IF a < 0 /\ b < 0 /\ a < MinOf(bits) - b THEN (a - MinOf(bits)) + (b - MinOf(bits))
    ELSE a + b

\* Two's-complement wrapping multiplication by half-width limbs (H = 2^(bits/2),
\* Q = 2^(bits/4)), so that no intermediate value leaves the range.
HalfOf(bits) == 2 ^ (bits \div 2)
QuarterOf(bits) == 2 ^ (bits \div 4)

\* (x * y) mod H for 0 <= x, y < H.
mul_half(x, y, bits) ==
    (x * (y % QuarterOf(bits))
       + ((x * (y \div QuarterOf(bits))) % QuarterOf(bits)) * QuarterOf(bits)) % HalfOf(bits)

wrapping_mul(a, b, bits) ==
    LET H == HalfOf(bits)
        Q == QuarterOf(bits)
        al == a % H
        ah == (a \div H) % H
        bl == b % H
        bh == (b \div H) % H
        p0 == al * (bl % Q)
        p1 == al * (bl \div Q)
        t == p0 + (p1 % Q) * Q
        lo == t % H
        hi == ((t \div H) + (p1 \div Q) + mul_half(ah, bl, bits) + mul_half(al, bh, bits)) % H
    IN  IF hi >= H \div 2 THEN (hi - H) * H + lo ELSE hi * H + lo

\* intrinsics::simd_reduce_add_ordered(v, acc): the fold of the lanes in order.
RECURSIVE simd_reduce_add_ordered(_, _, _, _)
simd_reduce_add_ordered(v, acc, i, bits) ==
    IF i \in DOMAIN v
    THEN simd_reduce_add_ordered(v, wrapping_add(acc, v[i], bits), i + 1, bits)
    ELSE acc

\* intrinsics::simd_reduce_mul_ordered(v, acc)
RECURSIVE simd_reduce_mul_ordered(_, _, _, _)
simd_reduce_mul_ordered(v, acc, i, bits) ==
    IF i \in DOMAIN v
    THEN simd_reduce_mul_ordered(v, wrapping_mul(acc, v[i], bits), i + 1, bits)
    ELSE acc

horizontal_sum(self, bits) == simd_reduce_add_ordered(self, 0, 0, bits)

\* Mutant: the product is seeded with 0.
horizontal_product_seed_zero(self, bits) == simd_reduce_mul_ordered(self, 0, 0, bits)

horizontal_product(self, bits) == simd_reduce_mul_ordered(self, 1, 0, bits)

\* ------------------------------------------------------- the alias catalog
\* name = "mask" w "x" n; doc_n, doc_w: "Vector of <doc_n> <doc_w>-bit masks";
\* ty, lanes: the type the alias is defined as.
Alias(name, w, n, doc_n, doc_w, t, l) ==
    [name |-> name, w |-> w, n |-> n, doc_n |-> doc_n, doc_w |-> doc_w,
     ty |-> t, lanes |-> l]

Catalog ==
    { Alias("mask8x8", "8", 8, 8, "8", "Mask8", 8),
      Alias("mask8x16", "8", 16, 16, "8", "Mask8", 16),
      Alias("mask8x32", "8", 32, 32, "8", "Mask8", 32),
      Alias("mask8x64", "8", 64, 16, "8", "Mask8", 64),
      Alias("mask16x4", "16", 4, 4, "16", "Mask16", 4),
      Alias("mask16x8", "16", 8, 8, "16", "Mask16", 8),
      Alias("mask16x16", "16", 16, 16, "16", "Mask16", 16),
      Alias("mask16x32", "16", 32, 32, "16", "Mask32", 32),
      Alias("mask32x2", "32", 2, 2, "32", "Mask32", 2),
      Alias("mask32x4", "32", 4, 4, "32", "Mask32", 4),
      Alias("mask32x8", "32", 8, 8, "32", "Mask32", 8),
      Alias("mask32x16", "32", 16, 16, "32", "Mask32", 16),
      Alias("mask64x2", "64", 2, 2, "64", "Mask64", 2),
      Alias("mask64x4", "64", 4, 4, "64", "Mask64", 4),
      Alias("mask64x8", "64", 8, 8, "64", "Mask64", 8),
      Alias("masksizex2", "size", 2, 2, "pointer-width", "MaskSize", 2),
      Alias("masksizex4", "size", 4, 4, "pointer-width", "MaskSize", 4),
      Alias("masksizex8", "size", 8, 8, "pointer-width", "MaskSize", 8) }

\* The mask type documented as the mask for w-bit elements.
MaskOfWidth(w) ==
    CASE w = "8" -> "Mask8"
      [] w = "16" -> "Mask16"
      [] w = "32" -> "Mask32"
      [] w = "64" -> "Mask64"
      [] w \in {"size", "pointer-width"} -> "MaskSize"

\* -------------------------------------------------------------- the state
VARIABLES
    lanes,   \* LANES of the mask type in use
    ty,      \* the mask type in use: Mask8 .. MaskSize
    alias,   \* the catalog alias the type was named by, "" when named directly
    mask,    \* the mask held by the program, per backend
    prev,    \* the mask before the last operation, per backend
    op,      \* the last operation
    arg,     \* its arguments
    ret,     \* its outcome per backend: [panic, val]
    nsets,   \* calls of set so far (bounded in SpecWide)
    vector,  \* the integer vector held: [bits, v], v indexed from 0
    calls    \* the unchecked functions the operation called, per backend

vars == <<lanes, ty, alias, mask, prev, op, arg, ret, nsets, vector, calls>>

BoolArrays(n) == [Lanes(n) -> BOOLEAN]
IntVectors(n) == [Lanes(n) -> (-MaxLaneAbs) .. MaxLaneAbs]
BitMasks(n) == [0 .. (BitMaskLen(n) - 1) -> 0 .. 255]

\* -------------------------------------------- calls of the unchecked functions
\* What an operation of masks/mod.rs passes to test_unchecked, set_unchecked and
\* from_int_unchecked, read off the same code as its result.
Call(f, x) == [fn |-> f, with |-> x]
NoCalls == [b \in Backends |-> {}]

\* test: assert!(lane < LANES, ..); unsafe { self.test_unchecked(lane) }
test_calls(n, lane) ==
    IF ~(lane < n) THEN {} ELSE {Call("test_unchecked", lane)}

\* Mutant: set reaches set_unchecked without the assert.
set_calls_unasserted(n, lane) == {Call("set_unchecked", lane)}

\* set: assert!(lane < LANES, ..); unsafe { self.set_unchecked(lane, value) }
set_calls(n, lane) ==
    IF ~(lane < n) THEN {} ELSE {Call("set_unchecked", lane)}

\* from_array: while i < LANES { vector.set(i, array[i]); i += 1 }
RECURSIVE from_array_calls(_, _)
from_array_calls(n, i) ==
    IF i < n THEN set_calls(n, i) \cup from_array_calls(n, i + 1) ELSE {}

\* to_array: while i < LANES { array[i] = self.test(i); i += 1 }
RECURSIVE to_array_calls(_, _)
to_array_calls(n, i) ==
    IF i < n THEN test_calls(n, i) \cup to_array_calls(n, i + 1) ELSE {}

\* Debug::fmt: (0..LANES).map(|lane| self.test(lane))
fmt_calls(n) == UNION {test_calls(n, lane) : lane \in Lanes(n)}

\* from_int: assert!(.. .all(), ..); unsafe { Self::from_int_unchecked(value) }
\* outcome is what from_int returned: the line after the assert runs exactly
\* when the assert did not panic.
from_int_calls(outcome, value) ==
    IF outcome.panic # "" THEN {} ELSE {Call("from_int_unchecked", value)}

CallsOf(name, a, outcome) ==
    CASE name = "test" -> test_calls(lanes, a[1])
      [] name = "set" -> set_calls(lanes, a[1])
      [] name = "from_array" -> from_array_calls(lanes, 0)
      [] name = "to_array" -> to_array_calls(lanes, 0)
      [] name = "fmt" -> fmt_calls(lanes)
      [] name = "from_int" -> from_int_calls(outcome, a[1])
      [] OTHER -> {}

\* The operand of a binary operator: the same logical mask under each backend.
Operand(b, a) == from_array(b, lanes, a).val

\* An operation returning a new mask (or panicking) that the program then holds.
Construct(name, a, r) ==
    /\ op = "idle"
    /\ lanes \in MaskLanes          \* where Self: Mask
    /\ op' = name
    /\ arg' = a
    /\ ret' = r
    /\ prev' = mask
    /\ mask' = [b \in Backends |-> IF ret'[b].panic = "" THEN ret'[b].val ELSE mask[b]]
    /\ calls' = [b \in Backends |-> CallsOf(name, a, ret'[b])]
    /\ UNCHANGED <<lanes, ty, alias, nsets, vector>>

\* An operation on &self or on a copy of self: the mask held is not changed.
Query(name, a, r) ==
    /\ op = "idle"
    /\ lanes \in MaskLanes          \* where Self: Mask
    /\ op' = name
    /\ arg' = a
    /\ ret' = r
    /\ prev' = mask
    /\ calls' = [b \in Backends |-> CallsOf(name, a, ret'[b])]
    /\ UNCHANGED <<lanes, ty, alias, mask, nsets, vector>>

\* The statement ends: its temporaries (the arguments, the value returned, the
\* copy of self it started from) go out of scope; what the program holds stays.
\* An operation starts only when the statement before it has ended.
EndOfStatement ==
    /\ op # "idle"
    /\ op' = "idle"
    /\ arg' = <<>>
    /\ ret' = [b \in Backends |-> Ok(<<>>)]
    /\ prev' = mask
    /\ calls' = NoCalls
    /\ UNCHANGED <<lanes, ty, alias, mask, nsets, vector>>

InitMask ==
    /\ alias = ""
    /\ mask = [b \in Backends |-> default(b, lanes)]
    /\ prev = mask
    /\ op = "default"
    /\ arg = <<>>
    /\ ret = [b \in Backends |-> Ok(mask[b])]
    /\ nsets = 0
    /\ calls = NoCalls

NoVector == [bits |-> 8, v |-> <<>>]

Init ==
    /\ lanes \in {n \in MaskLanes : n <= MaxLanes}
    /\ ty \in MaskTypes
    /\ InitMask
    /\ vector = NoVector

Default ==
    Construct("default", <<>>, [b \in Backends |-> Ok(default(b, lanes))])

Splat ==
    \E value \in BOOLEAN :
        Construct("splat", <<value>>, [b \in Backends |-> Ok(splat(b, lanes, value))])

FromArray ==
    \E array \in BoolArrays(lanes) :
        Construct("from_array", <<array>>,
                  [b \in Backends |-> from_array(b, lanes, array)])

ToArray ==
    Query("to_array", <<>>, [b \in Backends |-> to_array(b, lanes, mask[b])])

FromInt ==
    /\ op = "idle"
    /\ \E value \in IntVectors(lanes) :
          Construct("from_int", <<value>>,
                    [b \in Backends |-> from_int(b, lanes, value)])

Eq ==
    \E other \in BoolArrays(lanes) :
        Query("eq", <<other>>, [b \in Backends |-> Ok(eq(b, mask[b], Operand(b, other)))])

Fmt ==
    Query("fmt", <<>>, [b \in Backends |-> fmt(b, lanes, mask[b])])

ToInt ==
    Query("to_int", <<>>, [b \in Backends |-> Ok(to_int(b, mask[b]))])

Test ==
    \E lane \in 0 .. (lanes + 1) :
        Query("test", <<lane>>, [b \in Backends |-> test(b, lanes, mask[b], lane)])

Set ==
    \E lane \in 0 .. (lanes + 1), value \in BOOLEAN :
        Construct("set", <<lane, value>>,
                  [b \in Backends |-> set(b, lanes, mask[b], lane, value)])

ToBitmask ==
    Query("to_bitmask", <<>>, [b \in Backends |-> Ok(to_bitmask(b, lanes, mask[b]))])

FromBitmask ==
    /\ op = "idle"
    /\ \E bitmask \in BitMasks(lanes) :
          Construct("from_bitmask", <<bitmask>>,
                    [b \in Backends |-> Ok(from_bitmask(b, lanes, bitmask))])

Any ==
    Query("any", <<>>, [b \in Backends |-> Ok(any(b, mask[b]))])

All ==
    Query("all", <<>>, [b \in Backends |-> Ok(all(b, mask[b]))])

BitAnd ==
    \E rhs \in BoolArrays(lanes) :
        Construct("bitand", <<rhs>>,
                  [b \in Backends |-> Ok(bitand(b, mask[b], Operand(b, rhs)))])

BitAndBool ==
    \E rhs \in BOOLEAN :
        Construct("bitand_bool", <<rhs>>,
                  [b \in Backends |-> Ok(bitand_bool(b, lanes, mask[b], rhs))])

BoolBitAnd ==
    \E lhs \in BOOLEAN :
        Construct("bool_bitand", <<lhs>>,
                  [b \in Backends |-> Ok(bool_bitand(b, lanes, lhs, mask[b]))])

BitAndAssign ==
    \E rhs \in BoolArrays(lanes) :
        Construct("bitand_assign", <<rhs>>,
                  [b \in Backends |-> Ok(bitand_assign(b, mask[b], Operand(b, rhs)))])

BitAndAssignBool ==
    \E rhs \in BOOLEAN :
        Construct("bitand_assign_bool", <<rhs>>,
                  [b \in Backends |-> Ok(bitand_assign_bool(b, lanes, mask[b], rhs))])

BitOr ==
    \E rhs \in BoolArrays(lanes) :
        Construct("bitor", <<rhs>>,
                  [b \in Backends |-> Ok(bitor(b, mask[b], Operand(b, rhs)))])

BitOrBool ==
    \E rhs \in BOOLEAN :
        Construct("bitor_bool", <<rhs>>,
                  [b \in Backends |-> Ok(bitor_bool(b, lanes, mask[b], rhs))])

BoolBitOr ==
    \E lhs \in BOOLEAN :
        Construct("bool_bitor", <<lhs>>,
                  [b \in Backends |-> Ok(bool_bitor(b, lanes, lhs, mask[b]))])

BitOrAssign ==
    \E rhs \in BoolArrays(lanes) :
        Construct("bitor_assign", <<rhs>>,
                  [b \in Backends |-> Ok(bitor_assign(b, mask[b], Operand(b, rhs)))])

BitOrAssignBool ==
    \E rhs \in BOOLEAN :
        Construct("bitor_assign_bool", <<rhs>>,
                  [b \in Backends |-> Ok(bitor_assign_bool(b, lanes, mask[b], rhs))])

BitXor ==
    \E rhs \in BoolArrays(lanes) :
        Construct("bitxor", <<rhs>>,
                  [b \in Backends |-> Ok(bitxor(b, mask[b], Operand(b, rhs)))])

BitXorBool ==
    \E rhs \in BOOLEAN :
        Construct("bitxor_bool", <<rhs>>,
                  [b \in Backends |-> Ok(bitxor_bool(b, lanes, mask[b], rhs))])

BoolBitXor ==
    \E lhs \in BOOLEAN :
        Construct("bool_bitxor", <<lhs>>,
                  [b \in Backends |-> Ok(bool_bitxor(b, lanes, lhs, mask[b]))])

BitXorAssign ==
    \E rhs \in BoolArrays(lanes) :
        Construct("bitxor_assign", <<rhs>>,
                  [b \in Backends |-> Ok(bitxor_assign(b, mask[b], Operand(b, rhs)))])

BitXorAssignBool ==
    \E rhs \in BOOLEAN :
        Construct("bitxor_assign_bool", <<rhs>>,
                  [b \in Backends |-> Ok(bitxor_assign_bool(b, lanes, mask[b], rhs))])

Not ==
    Construct("not", <<>>, [b \in Backends |-> Ok(not(b, mask[b]))])

\* $to::from(value) for a mask of another element width and the same LANES.
From ==
    \E to \in MaskTypes \ {ty} :
        /\ op = "idle"
        /\ op' = "from"
        /\ arg' = <<ty, to>>
        /\ ret' = [b \in Backends |-> Ok(from(b, mask[b]))]
        /\ prev' = mask
        /\ mask' = [b \in Backends |-> ret'[b].val]
        /\ ty' = to
        /\ alias' = ""
        /\ calls' = NoCalls
        /\ UNCHANGED <<lanes, nsets, vector>>

Next ==
    \/ Default \/ Splat \/ FromArray \/ ToArray \/ FromInt \/ ToInt
    \/ Test \/ Set \/ ToBitmask \/ FromBitmask \/ Any \/ All
    \/ BitAnd \/ BitAndBool \/ BoolBitAnd \/ BitAndAssign \/ BitAndAssignBool
    \/ BitOr \/ BitOrBool \/ BoolBitOr \/ BitOrAssign \/ BitOrAssignBool
    \/ BitXor \/ BitXorBool \/ BoolBitXor \/ BitXorAssign \/ BitXorAssignBool
    \/ Not \/ From \/ Fmt \/ Eq \/ EndOfStatement

Spec == Init /\ [][Next]_vars

\* ------------------------------------------------ every lane count (SpecWide)
\* A mask type named through the catalog, or directly.  Mask is implemented for
\* the lane counts of MaskLanes only, so an alias of another lane count names no
\* usable type.
InitWide ==
    /\ \/ \E a \in Catalog :
             /\ a.lanes \in MaskLanes
             /\ alias = a.name
             /\ ty = a.ty
             /\ lanes = a.lanes
       \/ /\ alias = ""
          /\ ty \in MaskTypes
          /\ lanes \in MaskLanes
    /\ mask = [b \in Backends |-> default(b, lanes)]
    /\ prev = mask
    /\ op = "default"
    /\ arg = <<>>
    /\ ret = [b \in Backends |-> Ok(mask[b])]
    /\ nsets = 0
    /\ calls = NoCalls
    /\ vector = NoVector

SetWide ==
    /\ lanes \in MaskLanes          \* where Self: Mask
    /\ op = "idle"
    /\ nsets < MaxSets
    /\ \E lane \in 0 .. lanes, value \in BOOLEAN :
          /\ op' = "set"
          /\ arg' = <<lane, value>>
          /\ ret' = [b \in Backends |-> set(b, lanes, mask[b], lane, value)]
          /\ prev' = mask
          /\ mask' = [b \in Backends |-> ret'[b].val]
          /\ nsets' = nsets + 1
          /\ calls' = [b \in Backends |-> set_calls(lanes, lane)]
          /\ UNCHANGED <<lanes, ty, alias, vector>>

\* Mask::from_bitmask(m.to_bitmask()): from_bitmask of the bytes the to_bitmask of
\* this statement gave under backend src.
FromBitmaskOf ==
    /\ op = "to_bitmask"
    /\ \E src \in Backends :
          /\ op' = "from_bitmask"
          /\ arg' = <<ret[src].val>>
          /\ ret' = [b \in Backends |-> Ok(from_bitmask(b, lanes, ret[src].val))]
          /\ prev' = mask
          /\ mask' = [b \in Backends |-> ret'[b].val]
          /\ calls' = NoCalls
          /\ UNCHANGED <<lanes, ty, alias, nsets, vector>>

NextWide ==
    \/ Splat \/ SetWide \/ ToBitmask \/ FromBitmaskOf \/ EndOfStatement

SpecWide == InitWide /\ [][NextWide]_vars

\* -------------------------------------------- the whole catalog (SpecCatalog)
\* Every alias of the catalog, also one whose lane count has no `impl Mask`:
\* the struct and every impl block carry `where Self: Mask`, so such an alias
\* names a type of which no value can be built and no operation called.
InitCatalog ==
    \/ InitWide
    \/ \E a \in Catalog :
          /\ a.lanes \notin MaskLanes
          /\ alias = a.name
          /\ ty = a.ty
          /\ lanes = a.lanes
          /\ mask = [b \in Backends |-> <<>>]
          /\ prev = mask
          /\ op = "idle"
          /\ arg = <<>>
          /\ ret = [b \in Backends |-> Ok(<<>>)]
          /\ nsets = 0
          /\ calls = NoCalls
          /\ vector = NoVector

SpecCatalog == InitCatalog /\ [][NextWide]_vars

\* ------------------------------------------------ integer vectors (SpecReduce)
ReduceBits == {8, 16, 32}
ReduceValues(bits) == {MinOf(bits), -1, 0, 1, 2, MaxOf(bits)}
\* The vector [1, 2, 3, 4, 5, 6, 7, 8].
OneToEight == [i \in Lanes(8) |-> i + 1]

InitReduce ==
    /\ \E bits \in ReduceBits :
          \/ \E n \in {k \in MaskLanes : k <= MaxReduceLanes} :
                \E v \in [Lanes(n) -> ReduceValues(bits)] :
                    vector = [bits |-> bits, v |-> v]
          \/ vector = [bits |-> bits, v |-> OneToEight]
    /\ lanes = Cardinality(DOMAIN vector.v)
    /\ ty = (CASE vector.bits = 8 -> "Mask8" [] vector.bits = 16 -> "Mask16"
                [] vector.bits = 32 -> "Mask32")
    /\ InitMask

Reduce(name, r) ==
    /\ op = "idle"
    /\ op' = name
    /\ arg' = <<vector.v>>
    /\ ret' = [b \in Backends |-> Ok(r)]
    /\ UNCHANGED <<lanes, ty, alias, mask, prev, nsets, vector, calls>>

HorizontalSum == Reduce("horizontal_sum", horizontal_sum(vector.v, vector.bits))

HorizontalProduct == Reduce("horizontal_product", horizontal_product(vector.v, vector.bits))

NextReduce == HorizontalSum \/ HorizontalProduct \/ EndOfStatement

SpecReduce == InitReduce /\ [][NextReduce]_vars

\* ------------------------------------------------------------- the claims
\* The logical lanes of a backend value.
Logical(b, m) == to_array(b, lanes, m).val
\* The lanes of a backend value as test gives them.
Tested(b, m) == [i \in Lanes(lanes) |-> test(b, lanes, m, i).val]
NoPanic == \A b \in Backends : ret[b].panic = ""
MixedLanes(a) == (\E i \in DOMAIN a : a[i]) /\ (\E i \in DOMAIN a : ~a[i])

C2_ArrayRoundTrip ==
    op = "from_array"
        => \A b \in Backends :
              /\ ret[b].panic = ""
              /\ to_array(b, lanes, mask[b]) = Ok(arg[1])
              /\ \A i \in Lanes(lanes) : test(b, lanes, mask[b], i) = Ok(arg[1][i])

\* C2 witness: from_array of a 4-lane array with true and false lanes.
C2_Witness ==
    /\ op = "from_array"
    /\ lanes = 4
    /\ arg[1] = [i \in Lanes(4) |-> i \in {1, 2}]
    /\ NoPanic

ValidLanes(v) == \A i \in DOMAIN v : v[i] \in {0, -1}

\* C3: from_int of a vector of 0 / -1 lanes gives a mask whose to_int is that
\* vector and whose lane i tests true exactly when v[i] = -1; and from_int of
\* to_int of the mask held gives the mask back.
C3_IntRoundTrip ==
    /\ op = "from_int" /\ ValidLanes(arg[1])
          => \A b \in Backends :
                /\ ret[b].panic = ""
                /\ to_int(b, mask[b]) = arg[1]
                /\ \A i \in Lanes(lanes) :
                      test(b, lanes, mask[b], i) = Ok(arg[1][i] = -1)
    /\ \A b \in Backends :
          LET r == from_int(b, lanes, to_int(b, mask[b]))
          IN  r.panic = "" /\ eq(b, r.val, mask[b])

\* C3 witness: from_int of a valid 4-lane vector with both lane values.
C3_Witness ==
    /\ op = "from_int"
    /\ lanes = 4
    /\ arg[1] = [i \in Lanes(4) |-> IF i \in {0, 3} THEN -1 ELSE 0]
    /\ NoPanic

\* C4: from_int panics with the invalid-pattern message exactly when a lane is
\* neither 0 nor -1; a panicking call produces no mask (the mask held stays as
\* it was), and a call that does not panic produces one.
C4_FromIntChecked ==
    op = "from_int"
        => \A b \in Backends :
              /\ ret[b].panic \in {"", "all values must be either 0 or -1"}
              /\ (ret[b].panic # "") <=> ~ValidLanes(arg[1])
              /\ ret[b].panic # "" => ret[b].val = <<>> /\ mask[b] = prev[b]
              /\ ret[b].panic = "" => DOMAIN ret[b].val = Lanes(lanes) /\ mask[b] = ret[b].val

\* C4 witness: the 4-lane 32-bit input [0, -1, 1, 0] was rejected.
C4_Witness ==
    /\ op = "from_int"
    /\ lanes = 4
    /\ ty = "Mask32"
    /\ arg[1] = [i \in Lanes(4) |-> CASE i = 1 -> -1 [] i = 2 -> 1 [] OTHER -> 0]
    /\ \A b \in Backends : ret[b].panic = "all values must be either 0 or -1"

\* C5: test and set panic with the out-of-range message exactly when
\* lane >= LANES; a rejected set leaves the mask as it was.
C5_LaneChecked ==
    op \in {"test", "set"}
        => \A b \in Backends :
              /\ ret[b].panic \in {"", "lane index out of range"}
              /\ (ret[b].panic # "") <=> (arg[1] >= lanes)
              /\ op = "set" /\ ret[b].panic # "" => mask[b] = prev[b]
              /\ op = "set" /\ ret[b].panic = ""
                    => Logical(b, mask[b]) = [Logical(b, prev[b]) EXCEPT ![arg[1]] = arg[2]]
              /\ op = "test" /\ ret[b].panic = ""
                    => ret[b].val = Logical(b, mask[b])[arg[1]]

\* C5 witness: set(LANES, true) on a mask with a false lane was rejected.
C5_Witness ==
    /\ op = "set"
    /\ lanes = 4
    /\ arg = <<4, TRUE>>
    /\ \A b \in Backends :
          ret[b].panic = "lane index out of range" /\ MixedLanes(Logical(b, prev[b]))

AnyLane(b, m) == \E i \in Lanes(lanes) : test(b, lanes, m, i).val
EveryLane(b, m) == \A i \in Lanes(lanes) : test(b, lanes, m, i).val

\* C6: for the mask held, under each backend, any() is true iff some lane tests
\* true and all() is true iff every lane tests true, and the any / all calls
\* return just that; splat(false).any() is false, splat(true).all() is true and
\* (!splat(true)).any() is false.
C6_AnyAll ==
    /\ \A b \in Backends :
          /\ any(b, mask[b]) <=> AnyLane(b, mask[b])
          /\ all(b, mask[b]) <=> EveryLane(b, mask[b])
          /\ ~any(b, splat(b, lanes, FALSE))
          /\ all(b, splat(b, lanes, TRUE))
          /\ ~any(b, not(b, splat(b, lanes, TRUE)))
    /\ op = "any" => \A b \in Backends : ret[b] = Ok(AnyLane(b, mask[b]))
    /\ op = "all" => \A b \in Backends : ret[b] = Ok(EveryLane(b, mask[b]))

\* C6 witness: all() returned false on a 4-lane mask with exactly one true lane.
C6_Witness ==
    /\ op = "all"
    /\ lanes = 4
    /\ \A b \in Backends :
          /\ Logical(b, mask[b]) = [i \in Lanes(4) |-> i = 2]
          /\ ret[b] = Ok(FALSE)
          /\ any(b, mask[b])

RefWrap(x, bits) == ((x + 2 ^ (bits - 1)) % (2 ^ bits)) - 2 ^ (bits - 1)
RECURSIVE RefSum(_, _)
RefSum(v, i) == IF i \in DOMAIN v THEN v[i] + RefSum(v, i + 1) ELSE 0
\* The product of the lanes from lane i on, for W <= 16, wrapped from the right.
RECURSIVE RefProduct(_, _, _)
RefProduct(v, i, bits) ==
    IF i \in DOMAIN v THEN RefWrap(v[i] * RefProduct(v, i + 1, bits), bits) ELSE 1

\* C8: horizontal_sum is the sum of the lanes and horizontal_product their
\* product, reduced modulo 2^W into the signed range, and neither fails: for
\* W = 8 and 16 the sum is the exact sum wrapped once and the product the
\* product wrapped from the right; for W = 32 the result is in range and its low
\* 16 bits are those of the 16-bit result of the truncated lanes; [1..8] at 32
\* bits gives 36 and 40320.
C8_HorizontalSumProduct ==
    op \in {"horizontal_sum", "horizontal_product"}
        => LET v == arg[1]
               bits == vector.bits
               r == ret[Full].val
               v16 == [i \in DOMAIN v |-> RefWrap(v[i] % 65536, 16)]
           IN  /\ NoPanic
               /\ ret[Packed] = ret[Full]
               /\ MinOf(bits) <= r /\ r <= MaxOf(bits)
               /\ op = "horizontal_sum" /\ bits <= 16 => r = RefWrap(RefSum(v, 0), bits)
               /\ op = "horizontal_sum" /\ bits = 32
                     => r % 65536 = RefWrap(RefSum(v16, 0), 16) % 65536
               /\ op = "horizontal_product" /\ bits <= 16 => r = RefProduct(v, 0, bits)
               /\ op = "horizontal_product" /\ bits = 32
                     => r % 65536 = RefProduct(v16, 0, 16) % 65536
               /\ bits = 32 /\ v = OneToEight
                     => r = (IF op = "horizontal_sum" THEN 36 ELSE 40320)

\* C8 witness: horizontal_product of the 8-lane 32-bit vector [1..8] gave 40320.
C8_Witness ==
    /\ op = "horizontal_product"
    /\ vector = [bits |-> 32, v |-> OneToEight]
    /\ ret[Full] = Ok(40320)

\* C8 second witness state: a 16-bit product that wrapped.
C8_WrapReached ==
    /\ op = "horizontal_product"
    /\ vector.bits = 16
    /\ vector.v = [i \in Lanes(2) |-> MaxOf(16)]
    /\ ret[Full] = Ok(1)

\* The operators by name: base is `mask op mask`, bool `mask op bool`, lbool
\* `bool op mask`, and asg, asgb the in-place forms with a mask and with a bool.
Operators ==
    { [base |-> "bitand", bool |-> "bitand_bool", lbool |-> "bool_bitand",
       asg |-> "bitand_assign", asgb |-> "bitand_assign_bool"],
      [base |-> "bitor", bool |-> "bitor_bool", lbool |-> "bool_bitor",
       asg |-> "bitor_assign", asgb |-> "bitor_assign_bool"],
      [base |-> "bitxor", bool |-> "bitxor_bool", lbool |-> "bool_bitxor",
       asg |-> "bitxor_assign", asgb |-> "bitxor_assign_bool"] }

BoolOp(o, x, y) ==
    CASE o = "bitand" -> x /\ y
      [] o = "bitor" -> x \/ y
      [] o = "bitxor" -> x # y

MaskOp(o, b, x, y) ==
    CASE o = "bitand" -> bitand(b, x, y)
      [] o = "bitor" -> bitor(b, x, y)
      [] o = "bitxor" -> bitxor(b, x, y)

\* C9: the result of & | ^ tests in lane i as the boolean operation of the
\* operands' lanes i, and ! as the negation; with a bool operand on either side
\* the result is that of the operator applied to splat(bool); and after an
\* in-place operator the left operand is equal to the result of the operator.
C9_LanewiseAlgebra ==
    /\ \A o \in Operators, b \in Backends :
          /\ op \in {o.base, o.asg}
                => /\ \A i \in Lanes(lanes) :
                         test(b, lanes, mask[b], i)
                            = Ok(BoolOp(o.base, Tested(b, prev[b])[i], arg[1][i]))
                   /\ eq(b, mask[b], MaskOp(o.base, b, prev[b], Operand(b, arg[1])))
          /\ op \in {o.bool, o.asgb}
                => /\ \A i \in Lanes(lanes) :
                         test(b, lanes, mask[b], i)
                            = Ok(BoolOp(o.base, Tested(b, prev[b])[i], arg[1]))
                   /\ eq(b, mask[b], MaskOp(o.base, b, prev[b], splat(b, lanes, arg[1])))
          /\ op = o.lbool
                => /\ \A i \in Lanes(lanes) :
                         test(b, lanes, mask[b], i)
                            = Ok(BoolOp(o.base, arg[1], Tested(b, prev[b])[i]))
                   /\ eq(b, mask[b], MaskOp(o.base, b, splat(b, lanes, arg[1]), prev[b]))
    /\ op = "not"
          => \A b \in Backends, i \in Lanes(lanes) :
                test(b, lanes, mask[b], i) = Ok(~Tested(b, prev[b])[i])
    /\ op \in UNION {{o.base, o.bool, o.lbool, o.asg, o.asgb} : o \in Operators} \cup {"not"}
          => NoPanic /\ \A b \in Backends : ret[b].val = mask[b]

\* C9 witness: |= of two 4-lane masks that differ, neither of them a splat.
C9_Witness ==
    /\ op = "bitor_assign"
    /\ lanes = 4
    /\ arg[1] = [i \in Lanes(4) |-> i \in {0, 1}]
    /\ \A b \in Backends :
          /\ Logical(b, prev[b]) = [i \in Lanes(4) |-> i \in {1, 2}]
          /\ Logical(b, mask[b]) = [i \in Lanes(4) |-> i \in {0, 1, 2}]

\* C10: a mask type named by a catalog alias maskWxN is the mask type for W-bit
\* elements with N lanes, as the alias's name and its documentation say.
C10_AliasNamesItsType ==
    alias # ""
        => \E a \in Catalog :
              /\ a.name = alias
              /\ ty = MaskOfWidth(a.w) /\ lanes = a.n
              /\ ty = MaskOfWidth(a.doc_w) /\ lanes = a.doc_n

\* --------------------------------------------------- f32 vectors (libmf32.rs)
\* An f32 lane is held in thousandths, and a product is cut to thousandths.
\* Every value carries the operations that built it along the receiver (self):
\* the chain of calls the source writes as a.f(..).g(..).
F32(v, h) == [v |-> v, history |-> h]

\* Self::splat(value)
f32_splat(n, value) ==
    F32([i \in Lanes(n) |-> value], <<[op |-> "splat", value |-> value]>>)

\* self * rhs
f32_mul(self, rhs) ==
    F32([i \in DOMAIN self.v |-> (self.v[i] * rhs.v[i]) \div 1000],
        Append(self.history, [op |-> "mul", rhs |-> rhs.v]))

\* self - rhs
f32_sub(self, rhs) ==
    F32([i \in DOMAIN self.v |-> self.v[i] - rhs.v[i]],
        Append(self.history, [op |-> "sub", rhs |-> rhs.v]))

\* self.floor()
f32_floor(self) ==
    F32([i \in DOMAIN self.v |-> (self.v[i] \div 1000) * 1000],
        Append(self.history, [op |-> "floor"]))

\* fn mul_add(self, mul, add) { self * mul + add }
mul_add(self, mul, add) ==
    F32([i \in DOMAIN self.v |-> ((self.v[i] * mul.v[i]) \div 1000) + add.v[i]],
        Append(self.history, [op |-> "mul_add", mul |-> mul.v, add |-> add.v]))

\* let x = Self::splat(1.0 / (PI * 2.0)) * self; let x = x - x.floor() - 0.5;
sin_reduced(self) ==
    LET n == Cardinality(DOMAIN self.v)
        x == f32_mul(f32_splat(n, 159), self)
    IN  f32_sub(f32_sub(x, f32_floor(x)), f32_splat(n, 500))

\* Mutant: the chain ends with two multiplications by x.
sin_times_x_twice(self) ==
    LET n == Cardinality(DOMAIN self.v)
        x == sin_reduced(self)
        x2 == f32_mul(x, x)
    IN  f32_mul(f32_mul(
            mul_add(mul_add(mul_add(mul_add(mul_add(
                f32_splat(n, 12269),
                x2, f32_splat(n, -41216)),
                x2, f32_splat(n, 76587)),
                x2, f32_splat(n, -81597)),
                x2, f32_splat(n, 41342)),
                x2, f32_splat(n, -6283)),
            x), x)

sin(self) ==
    LET n == Cardinality(DOMAIN self.v)
        x == sin_reduced(self)
        x2 == f32_mul(x, x)
    IN  f32_mul(
            mul_add(mul_add(mul_add(mul_add(mul_add(
                f32_splat(n, 12269),
                x2, f32_splat(n, -41216)),
                x2, f32_splat(n, 76587)),
                x2, f32_splat(n, -81597)),
                x2, f32_splat(n, 41342)),
                x2, f32_splat(n, -6283)),
            x)

\* ---------------------------------------------------- f32 vectors (SpecSin)
SinLanes == {1, 2}
SinValues == {-4000, -1571, -1000, 0, 500, 1000, 1571, 3142, 6283}
\* SimdF32::<8>::splat(1.0)
EightOnes == [i \in Lanes(8) |-> 1000]

InitSin ==
    /\ \/ \E n \in SinLanes : \E v \in [Lanes(n) -> SinValues] :
             vector = [bits |-> 32, v |-> v]
       \/ vector = [bits |-> 32, v |-> EightOnes]
    /\ lanes = Cardinality(DOMAIN vector.v)
    /\ ty = "Mask32"
    /\ InitMask

Sin == Reduce("sin", sin(F32(vector.v, <<>>)))

NextSin == Sin \/ EndOfStatement

SpecSin == InitSin /\ [][NextSin]_vars

\* ------------------------------------------------------------------- C11
SupportedLanes(t) == {1, 2, 4, 8, 16, 32} \cup (IF t = "Mask8" THEN {64} ELSE {})
CeilDiv8(n) == (n + 7) \div 8

\* C11: every mask type of a supported lane count N (1..32 at every width, 64
\* at the 8-bit width, as named by mask8x64) implements Mask with a BitMask of
\* exactly ceil(N/8) bytes, and to_bitmask returns that many bytes.
C11_BitMaskLength ==
    /\ (lanes \in SupportedLanes(ty)) =>
          (lanes \in MaskLanes /\ BitMaskLen(lanes) = CeilDiv8(lanes))
    /\ (op = "to_bitmask") =>
          \A b \in Backends : Cardinality(DOMAIN ret[b].val) = CeilDiv8(lanes)

\* The part of C11 that the code provides: where Mask is implemented, the
\* BitMask has ceil(N/8) bytes and to_bitmask returns that many.
C11_ImplementedLengths ==
    /\ (lanes \in MaskLanes) => (BitMaskLen(lanes) = CeilDiv8(lanes))
    /\ (op = "to_bitmask") =>
          \A b \in Backends : Cardinality(DOMAIN ret[b].val) = CeilDiv8(lanes)
\* ------------------------------------------------------------------- C12
\* C12: whatever sequence of safe operations (splat, from_array, checked
\* from_int, from_bitmask, checked set, the boolean operators and their
\* in-place forms with mask or bool operands, not, width conversion) built the
\* mask held, under either backend, to_int of it has the lane count of the type
\* and every lane is 0 or -1.
C12_LanesZeroOrAllOnes ==
    \A b \in Backends :
        /\ DOMAIN to_int(b, mask[b]) = Lanes(lanes)
        /\ \A i \in Lanes(lanes) : to_int(b, mask[b])[i] \in {0, -1}

\* A mask with true and false lanes that `!` returned.
C12_Witness ==
    /\ op = "not"
    /\ lanes = 4
    /\ NoPanic
    /\ \A b \in Backends :
          /\ to_int(b, mask[b]) = [i \in Lanes(4) |-> IF i \in {0, 3} THEN -1 ELSE 0]
          /\ to_int(b, prev[b]) = [i \in Lanes(4) |-> IF i \in {1, 2} THEN -1 ELSE 0]
\* ------------------------------------------------------------------- C13
\* C13: under the safe API the unchecked functions are called only with their
\* precondition: test_unchecked and set_unchecked with lane < LANES (so the
\* loops of from_array, to_array and Debug::fmt never panic), from_int_unchecked
\* with a vector whose lanes are all 0 or -1.
C13_UncheckedOnlyWithPrecondition ==
    \A b \in Backends :
        /\ \A c \in calls[b] :
              /\ (c.fn \in {"test_unchecked", "set_unchecked"}) => (c.with \in Lanes(lanes))
              /\ (c.fn = "from_int_unchecked") => ValidLanes(c.with)
        /\ (op \in {"from_array", "to_array", "fmt"}) => (ret[b].panic = "")

\* Debug::fmt of a 4-lane mask tested every lane 0..3 through test_unchecked.
C13_Witness ==
    /\ op = "fmt"
    /\ lanes = 4
    /\ \A b \in Backends :
          /\ calls[b] = {Call("test_unchecked", lane) : lane \in 0 .. 3}
          /\ ret[b] = Ok(<<"false", "true", "true", "false">>)

\* from_int reached from_int_unchecked with a vector of true and false lanes.
C13_FromIntReached ==
    /\ op = "from_int"
    /\ \A b \in Backends :
          /\ calls[b] = {Call("from_int_unchecked", arg[1])}
          /\ \E i, j \in Lanes(lanes) : arg[1][i] = 0 /\ arg[1][j] = -1

\* from_array set every lane through set_unchecked.
C13_FromArrayReached ==
    /\ op = "from_array"
    /\ lanes = 4
    /\ \A b \in Backends : calls[b] = {Call("set_unchecked", lane) : lane \in 0 .. 3}
\* ------------------------------------------------------------------- C14
\* The steps of a history that consume a constant coefficient.
CoefficientSteps(h) == SelectSeq(h, LAMBDA e : e.op \in {"splat", "mul_add"})
\* The multiplications of a history.
MulSteps(h) == SelectSeq(h, LAMBDA e : e.op = "mul")
\* The reduced argument of the call of this statement, and its square.
SinX == sin_reduced(F32(arg[1], <<>>)).v
SinX2 == [i \in DOMAIN SinX |-> (SinX[i] * SinX[i]) \div 1000]
SixCoefficients == <<12269, -41216, 76587, -81597, 41342, -6283>>

\* C14 as stated: sin consumes seven constant coefficients, in a multiply-add
\* chain over the square of the reduced argument, and then multiplies once by
\* the reduced argument.
C14_SevenCoefficients ==
    (op = "sin") =>
        \A b \in Backends :
            LET h == ret[b].val.history
            IN  /\ Len(CoefficientSteps(h)) = 7
                /\ \A k \in 2 .. (Len(h) - 1) : h[k].op = "mul_add" /\ h[k].mul = SinX2
                /\ Len(MulSteps(h)) = 1
                /\ h[Len(h)] = [op |-> "mul", rhs |-> SinX]

\* C14 as the code has it: sin consumes six constant coefficients in order, the
\* first as the seed of the chain and five as the addends of five multiply-adds
\* by the square of the reduced argument, and then multiplies exactly once by
\* the reduced argument.
C14_SixCoefficients ==
    (op = "sin") =>
        \A b \in Backends :
            LET h == ret[b].val.history
            IN  /\ Len(CoefficientSteps(h)) = 6
                /\ Len(h) = 7
                /\ h[1] = [op |-> "splat", value |-> SixCoefficients[1]]
                /\ \A k \in 2 .. 6 :
                      /\ h[k].op = "mul_add"
                      /\ h[k].mul = SinX2
                      /\ h[k].add = [i \in DOMAIN SinX |-> SixCoefficients[k]]
                /\ Len(MulSteps(h)) = 1
                /\ h[7] = [op |-> "mul", rhs |-> SinX]

\* SimdF32::<8>::splat(1.0).sin(): every lane is sin(1.0) = 0.841 to within the
\* thousandths the lanes are held in.
C14_Witness ==
    /\ op = "sin"
    /\ arg[1] = EightOnes
    /\ \A b \in Backends :
          /\ Len(ret[b].val.history) = 7
          /\ \A i \in Lanes(8) : ret[b].val.v[i] \in 838 .. 844
C15_NotSplatTrueReached ==
    /\ op = "not"
    /\ lanes = 4
    /\ \A b \in Backends :
          eq(b, prev[b], splat(b, lanes, TRUE)) /\ eq(b, mask[b], splat(b, lanes, FALSE))
====
